---- MODULE Spec2Model ----
(***************************************************************************)
(* A model of battery_health.py: the HTML table tokenizer, the scalar      *)
(* extractors (__str_to_int, __extract_date), the section location and the *)
(* battery-info and usage-history extractors.                              *)
(*                                                                         *)
(* Text is a sequence of one-character strings, so that split, find,       *)
(* replace, count, slicing, isdigit and int act on characters as Python's  *)
(* str methods do.  A call's outcome is Ok(v) or Err(e), e the exception.  *)
(***************************************************************************)
EXTENDS Integers, Sequences, FiniteSets, TLC

VARIABLES
    pc,                \* position of the function under analysis
    string, integer,   \* __str_to_int: argument and outcome
    date_str, date,    \* __extract_date: argument and outcome
    html_text,         \* __extract_html_table: argument
    table,             \* the extracted table (list of rows of cell texts)
    extracted,         \* __extract_html_table: outcome
    report,            \* the report text handed to the get_* functions
    battery_info, capacity_info, usage_info,   \* the located sections
    information,       \* get_battery_information: outcome
    i, dates, usage_hours, cumulative_usage,   \* get_usage_data: loop state
    usage_data         \* get_usage_data: outcome

vars == <<pc, string, integer, date_str, date, html_text, table, extracted,
          report, battery_info, capacity_info, usage_info, information,
          i, dates, usage_hours, cumulative_usage, usage_data>>

-----------------------------------------------------------------------------
(* Bounds of the input domains. *)

MaxLen == 3        \* characters of a __str_to_int argument
MaxSpan == 3       \* days between the two dates of a range, either way
MaxFrags == 3      \* fragments concatenated into an html_text
MaxParts == 3      \* parts concatenated into a report
MaxCells == 3      \* cells of a battery-info table row
MaxRows == 3       \* data rows of a usage-history table

-----------------------------------------------------------------------------
(* Outcomes. *)

Ok(v) == [ok |-> TRUE, val |-> v]
Err(e) == [ok |-> FALSE, err |-> e]
None == [ok |-> FALSE, err |-> "None"]

Min(a, b) == IF a <= b THEN a ELSE b

RECURSIVE SeqsUpTo(_, _)
SeqsUpTo(S, n) ==
    IF n = 0 THEN {<<>>}
    ELSE LET shorter == SeqsUpTo(S, n - 1)
         IN  shorter \cup {Append(s, x) : s \in shorter, x \in S}

RECURSIVE Concat(_)
Concat(ss) == IF ss = <<>> THEN <<>> ELSE Head(ss) \o Concat(Tail(ss))

-----------------------------------------------------------------------------
(* Python str operations, indices 0-based as in the source. *)

\* s[a:b] for 0 <= a
Slice(s, a, b) == SubSeq(s, a + 1, Min(b, Len(s)))

\* s[a:]
SliceFrom(s, a) == SubSeq(s, a + 1, Len(s))

\* s.find(sub): the lowest index of sub in s, -1 when absent
Find(s, sub) ==
    LET at == {k \in 0..(Len(s) - Len(sub)) : SubSeq(s, k + 1, k + Len(sub)) = sub}
    IN  IF at = {} THEN -1 ELSE CHOOSE k \in at : \A j \in at : k <= j

RECURSIVE Split(_, _)
\* s.split(sep), sep non-empty
Split(s, sep) ==
    LET k == Find(s, sep)
    IN  IF k = -1 THEN <<s>>
        ELSE <<Slice(s, 0, k)>> \o Split(SliceFrom(s, k + Len(sep)), sep)

RECURSIVE Replace(_, _, _)
\* s.replace(old, new), old non-empty
Replace(s, old, new) ==
    LET k == Find(s, old)
    IN  IF k = -1 THEN s
        ELSE Slice(s, 0, k) \o new \o Replace(SliceFrom(s, k + Len(old)), old, new)

RECURSIVE Count(_, _)
\* s.count(sub), sub non-empty
Count(s, sub) ==
    LET k == Find(s, sub)
    IN  IF k = -1 THEN 0 ELSE 1 + Count(SliceFrom(s, k + Len(sub)), sub)

DecimalDigits == <<"0", "1", "2", "3", "4", "5", "6", "7", "8", "9">>

IsDecimal(c) == \E k \in 1..10 : DecimalDigits[k] = c

DigitValue(c) == (CHOOSE k \in 1..10 : DecimalDigits[k] = c) - 1

\* "sup2" stands for the one character U+00B2 (superscript two): str.isdigit()
\* is True for it, and int() does not accept it.
OtherDigits == {"sup2"}

\* c.isdigit()
IsDigit(c) == IsDecimal(c) \/ c \in OtherDigits

RECURSIVE Base10(_)
\* the value of a non-empty run of decimal digits
Base10(s) ==
    IF s = <<>> THEN 0
    ELSE 10 * Base10(SubSeq(s, 1, Len(s) - 1)) + DigitValue(s[Len(s)])

\* int(s): an optional sign, then one or more decimal digits
PyInt(s) ==
    LET signed == s # <<>> /\ s[1] \in {"+", "-"}
        body == IF signed THEN Tail(s) ELSE s
    IN  IF body = <<>> \/ \E k \in 1..Len(body) : ~IsDecimal(body[k])
        THEN Err("ValueError")
        ELSE Ok(IF signed /\ s[1] = "-" THEN 0 - Base10(body) ELSE Base10(body))

-----------------------------------------------------------------------------
(* __str_to_int *)

RECURSIVE KeepDigits(_)
\* the loop of __str_to_int: integer_string
KeepDigits(s) ==
    IF s = <<>> THEN <<>>
    ELSE (IF IsDigit(Head(s)) THEN <<Head(s)>> ELSE <<>>) \o KeepDigits(Tail(s))

StrToInt(s) == PyInt(KeepDigits(s))

StrAlphabet == {"0", "1", "9", ".", "m", "sup2"}

Strings == SeqsUpTo(StrAlphabet, MaxLen)

InitStr ==
    /\ pc = "str_to_int"
    /\ string \in Strings
    /\ integer = None
    /\ date_str = <<>> /\ date = None
    /\ html_text = <<>> /\ table = <<>> /\ extracted = None
    /\ report = <<>>
    /\ battery_info = None /\ capacity_info = None /\ usage_info = None
    /\ information = None
    /\ i = 0 /\ dates = <<>> /\ usage_hours = <<>> /\ cumulative_usage = 0
    /\ usage_data = None

CallStrToInt ==
    /\ pc = "str_to_int"
    /\ integer' = StrToInt(string)
    /\ pc' = "done"
    /\ UNCHANGED <<string, date_str, date, html_text, table, extracted, report,
                   battery_info, capacity_info, usage_info, information,
                   i, dates, usage_hours, cumulative_usage, usage_data>>

SpecStr == InitStr /\ [][CallStrToInt]_vars

\* C8: digits_to_integer returns, for every text with at least one decimal
\* digit, the base-10 integer formed by its decimal digits in order, every
\* other character discarded, and fails when the text has no digit.
C8_DigitsToInteger ==
    pc = "done" =>
        IF \E k \in 1..Len(string) : IsDecimal(string[k])
        THEN integer.ok /\ integer.val = Base10(SelectSeq(string, IsDecimal))
        ELSE ~integer.ok

-----------------------------------------------------------------------------
(* datetime.date and datetime.timedelta, as __extract_date uses them. *)

IsLeap(y) == y % 4 = 0 /\ (y % 100 # 0 \/ y % 400 = 0)

DaysInMonth(y, m) ==
    IF m = 2 THEN (IF IsLeap(y) THEN 29 ELSE 28)
    ELSE IF m \in {4, 6, 9, 11} THEN 30 ELSE 31

DaysBeforeYear(y) ==
    (y - 1) * 365 + (y - 1) \div 4 - (y - 1) \div 100 + (y - 1) \div 400

RECURSIVE DaysBeforeMonth(_, _)
DaysBeforeMonth(y, m) ==
    IF m = 1 THEN 0 ELSE DaysBeforeMonth(y, m - 1) + DaysInMonth(y, m - 1)

\* date.toordinal()
ToOrdinal(d) == DaysBeforeYear(d.year) + DaysBeforeMonth(d.year, d.month) + d.day

RECURSIVE MonthOfDay(_, _, _)
\* the month holding the n-th day (n >= 1) of year y, scanning from month m
MonthOfDay(y, m, n) ==
    IF n <= DaysInMonth(y, m) THEN [year |-> y, month |-> m, day |-> n]
    ELSE MonthOfDay(y, m + 1, n - DaysInMonth(y, m))

\* date.fromordinal(n): the 400/100/4/1-year cycles of the proleptic calendar
FromOrdinal(n) ==
    LET n0 == n - 1
        n400 == n0 \div 146097
        r400 == n0 % 146097
        n100 == r400 \div 36524
        r100 == r400 % 36524
        n4 == r100 \div 1461
        r4 == r100 % 1461
        n1 == r4 \div 365
        r1 == r4 % 365
        y == n400 * 400 + n100 * 100 + n4 * 4 + n1 + 1
    IN  IF n1 = 4 \/ n100 = 4
        THEN [year |-> y - 1, month |-> 12, day |-> 31]
        ELSE MonthOfDay(y, 1, r1 + 1)

\* date_2 - date_1: a timedelta, normalized to days and 0 <= seconds < 86400
DateSub(d2, d1) == [days |-> ToOrdinal(d2) - ToOrdinal(d1), seconds |-> 0]

\* timedelta / n, renormalized; the spans here are whole days and n = 2, so
\* the quotient is a whole number of seconds and no rounding takes place
TimedeltaDiv(td, n) ==
    LET q == (td.days * 86400 + td.seconds) \div n
    IN  [days |-> q \div 86400, seconds |-> q % 86400]

\* date + timedelta: only the timedelta's days field is used
DateAdd_nearest(d, td) ==
    FromOrdinal(ToOrdinal(d) + td.days + (IF td.seconds >= 43200 THEN 1 ELSE 0))
DateAdd(d, td) == FromOrdinal(ToOrdinal(d) + td.days)

AllDecimal(s) == \A k \in 1..Len(s) : IsDecimal(s[k])

\* datetime.strptime(s, "%Y-%m-%d").date(): four digits, a month of one or
\* two digits in 1..12, a day of one or two digits in 1..31, nothing more
Strptime(s) ==
    LET parts == Split(s, <<"-">>)
        ok(p, hi) == Len(p) \in {1, 2} /\ AllDecimal(p) /\ Base10(p) \in 1..hi
    IN  IF ~(/\ Len(parts) = 3
             /\ Len(parts[1]) = 4 /\ AllDecimal(parts[1])
             /\ ok(parts[2], 12)
             /\ ok(parts[3], 31))
        THEN Err("ValueError")
        ELSE LET y == Base10(parts[1])
                 m == Base10(parts[2])
                 d == Base10(parts[3])
             IN  IF y < 1 \/ d > DaysInMonth(y, m)
                 THEN Err("ValueError")
                 ELSE Ok([year |-> y, month |-> m, day |-> d])

-----------------------------------------------------------------------------
(* __extract_date *)

\* date_str[11:21]: where the second date of a range starts
SecondDateStart_ten == 11 - 1
SecondDateStart == 11

MidpointOf(date_1, date_2) == DateAdd(date_1, TimedeltaDiv(DateSub(date_2, date_1), 2))

ExtractDate(s) ==
    LET dash_count == Count(s, <<"-">>)
    IN  IF dash_count = 2 THEN Strptime(s)
        ELSE IF dash_count = 5
        THEN LET date_1 == Strptime(Slice(s, 0, 10))
                 date_2 == Strptime(Slice(s, SecondDateStart, SecondDateStart + 10))
             IN  IF ~date_1.ok THEN date_1
                 ELSE IF ~date_2.ok THEN date_2
                 ELSE Ok(MidpointOf(date_1.val, date_2.val))
        ELSE Err("UnboundLocalError")

\* n as k decimal digits, zero-padded
RECURSIVE Digits(_, _)
Digits(n, k) ==
    IF k = 0 THEN <<>> ELSE Digits(n \div 10, k - 1) \o <<DecimalDigits[(n % 10) + 1]>>

\* date.isoformat(): YYYY-MM-DD
IsoFormat(d) == Digits(d.year, 4) \o <<"-">> \o Digits(d.month, 2) \o <<"-">> \o Digits(d.day, 2)

\* first dates of the date cells: the docstring's two examples, and dates at
\* a year's end and around a leap day
BaseDates ==
    { [year |-> 2018, month |-> 1, day |-> 5],
      [year |-> 2021, month |-> 6, day |-> 20],
      [year |-> 2019, month |-> 12, day |-> 30],
      [year |-> 2020, month |-> 2, day |-> 27],
      [year |-> 2020, month |-> 3, day |-> 1] }

DatePairs ==
    { <<d, FromOrdinal(ToOrdinal(d) + k)>> : d \in BaseDates, k \in (0 - MaxSpan)..MaxSpan }

\* what stands between, and after, the two dates of a two-date cell
Joins == { <<<<"-">>, <<>>>>, <<<<>>, <<>>>>, <<<<"x">>, <<"-">>>>, <<<<>>, <<"-">>>> }

DateStrs ==
    {IsoFormat(d) : d \in BaseDates}
    \cup {<<"2", "0", "1", "8", "-", "1", "-", "5">>, <<"2", "0", "2", "1", "-", "0", "6">>,
          <<"2", "0", "1", "9", "-", "0", "2", "-", "2", "9">>}
    \cup {IsoFormat(p[1]) \o j[1] \o IsoFormat(p[2]) \o j[2] : p \in DatePairs, j \in Joins}

InitDate ==
    /\ pc = "extract_date"
    /\ date_str \in DateStrs
    /\ date = None
    /\ string = <<>> /\ integer = None
    /\ html_text = <<>> /\ table = <<>> /\ extracted = None
    /\ report = <<>>
    /\ battery_info = None /\ capacity_info = None /\ usage_info = None
    /\ information = None
    /\ i = 0 /\ dates = <<>> /\ usage_hours = <<>> /\ cumulative_usage = 0
    /\ usage_data = None

CallExtractDate ==
    /\ pc = "extract_date"
    /\ date' = ExtractDate(date_str)
    /\ pc' = "done"
    /\ UNCHANGED <<string, integer, date_str, html_text, table, extracted, report,
                   battery_info, capacity_info, usage_info, information,
                   i, dates, usage_hours, cumulative_usage, usage_data>>

SpecDate == InitDate /\ [][CallExtractDate]_vars

\* the two dates of a 5-separator text: its characters 0-9 and 11-20
FirstDate == Strptime(Slice(date_str, 0, 10))
SecondDate == Strptime(Slice(date_str, 11, 21))

\* C4: for a text with exactly 5 '-' whose characters 0-9 are a valid date d1
\* and whose characters 11-20 are a valid date d2, the result is the single
\* date d1 + floor((d2 - d1) / 2) days: the exact midpoint for an even span,
\* the midpoint rounded down for an odd one.
C4_RangeMidpointFloor ==
    pc = "done" /\ Count(date_str, <<"-">>) = 5 /\ FirstDate.ok /\ SecondDate.ok =>
        LET o1 == ToOrdinal(FirstDate.val)
            o2 == ToOrdinal(SecondDate.val)
        IN  /\ date.ok
            /\ DOMAIN date.val = {"year", "month", "day"}
            /\ date.val.month \in 1..12
            /\ date.val.day \in 1..DaysInMonth(date.val.year, date.val.month)
            /\ ToOrdinal(date.val) = o1 + ((o2 - o1) \div 2)
            /\ (o2 - o1) % 2 = 0 => 2 * ToOrdinal(date.val) = o1 + o2
            /\ (o2 - o1) % 2 = 1 => 2 * ToOrdinal(date.val) = o1 + o2 - 1

\* an odd span, backwards, across a leap day has been resolved
C4_Witness ==
    /\ pc = "done" /\ Count(date_str, <<"-">>) = 5 /\ FirstDate.ok /\ SecondDate.ok
    /\ ToOrdinal(SecondDate.val) - ToOrdinal(FirstDate.val) = 0 - 3
    /\ FirstDate.val.month # SecondDate.val.month
    /\ date.ok

\* C3 as stated: two valid ISO dates d1 <= d2 concatenated with nothing
\* between them are taken as a range and give the midpoint date.
C3_DirectConcatenation ==
    \A p \in DatePairs :
        pc = "done" /\ ToOrdinal(p[1]) <= ToOrdinal(p[2])
                    /\ date_str = IsoFormat(p[1]) \o IsoFormat(p[2]) =>
            date.ok /\ ToOrdinal(date.val) = (ToOrdinal(p[1]) + ToOrdinal(p[2])) \div 2

\* C3 amended: two valid ISO dates d1 <= d2 joined by one '-' (5 separators,
\* "2018-01-05-2018-01-07") are taken as a range and give the midpoint date,
\* 2018-01-06 in the example.
C3_DashJoinedRange ==
    /\ \A p \in DatePairs :
        pc = "done" /\ ToOrdinal(p[1]) <= ToOrdinal(p[2])
                    /\ date_str = IsoFormat(p[1]) \o <<"-">> \o IsoFormat(p[2]) =>
            date.ok /\ ToOrdinal(date.val) = (ToOrdinal(p[1]) + ToOrdinal(p[2])) \div 2
    /\ pc = "done" /\ date_str = <<"2", "0", "1", "8", "-", "0", "1", "-", "0", "5", "-",
                                   "2", "0", "1", "8", "-", "0", "1", "-", "0", "7">> =>
            date = Ok([year |-> 2018, month |-> 1, day |-> 6])

C3_Witness ==
    /\ pc = "done"
    /\ date_str = <<"2", "0", "1", "8", "-", "0", "1", "-", "0", "5", "-",
                    "2", "0", "1", "8", "-", "0", "1", "-", "0", "7">>
    /\ date.ok

-----------------------------------------------------------------------------
(* __extract_row_data and __extract_html_table *)

Space == <<" ">>
CarriageReturn == <<"\r">>
LineFeed == <<"\n">>
TrStyle == <<"<", "t", "r", "s", "t", "y", "l", "e">>
TableOpen == <<"<", "t", "a", "b", "l", "e", ">">>
TableClose == <<"<", "/", "t", "a", "b", "l", "e", ">">>
TrOpen == <<"<", "t", "r">>
TrClose == <<"<", "/", "t", "r", ">">>
TdOpen == <<"<", "t", "d">>
TdClose == <<"<", "/", "t", "d", ">">>
Gt == <<">">>

\* xs[1:]
Rest(xs) == IF xs = <<>> THEN <<>> ELSE Tail(xs)

\* s[s.find(">") + 1 :]; find gives -1 when there is no ">", and s[0:] is s
AfterGt(s) == SliceFrom(s, Find(s, Gt) + 1)

ExtractRowData(row) ==
    LET data == Split(row, TdOpen)
        cell(k) == Replace(AfterGt(data[k]), TdClose, <<>>)
    IN  Rest([k \in 1..Len(data) |-> cell(k)])

\* the four replace calls that clean the table text
CleanText(s) ==
    Replace(Replace(Replace(Replace(s, Space, <<>>), CarriageReturn, <<>>),
                    LineFeed, <<>>), TrStyle, <<>>)

ExtractHtmlTable(text) ==
    LET cleaned == CleanText(text)
        opened == Split(cleaned, TableOpen)
    IN  IF Len(opened) < 2 THEN Err("IndexError")
        ELSE LET body == Split(opened[2], TableClose)[1]
                 rows == Rest(Split(body, TrOpen))
                 row(k) == ExtractRowData(Split(AfterGt(rows[k]), TrClose)[1])
             IN  Ok([k \in 1..Len(rows) |-> row(k)])

\* fragments of an html_text
PlainRow ==
    <<"<", "t", "r", ">", "<", "t", "d", ">", "a", "<", "/", "t", "d", ">", "<", "t",
      "d", ">", "1", "<", "/", "t", "d", ">", "<", "/", "t", "r", ">">>
ClassRow ==
    <<"<", "t", "r", " ", "c", "l", "a", "s", "s", "=", "\"", "e", "v", "e", "n", "\"",
      ">", "\r", "\n", "<", "t", "d", " ", "c", "l", "a", "s", "s", "=", "\"", "d",
      "a", "t", "e", "T", "i", "m", "e", "\"", ">", "b", "<", "/", "t", "d", ">",
      "<", "/", "t", "r", ">">>
StyledRow ==
    <<"<", "t", "r", " ", "s", "t", "y", "l", "e", "=", "\"", "h", "e", "i", "g", "h",
      "t", ":", "0", ".", "4", "e", "m", ";", "\"", ">", "<", "/", "t", "r", ">">>

HtmlFrags == {TableOpen, TableClose, PlainRow, ClassRow, StyledRow, Space \o <<"x">>}

HtmlTexts == {Concat(fs) : fs \in SeqsUpTo(HtmlFrags, MaxFrags)}

InitTable ==
    /\ pc = "extract_html_table"
    /\ html_text \in HtmlTexts
    /\ extracted = None
    /\ table = <<>>
    /\ string = <<>> /\ integer = None
    /\ date_str = <<>> /\ date = None
    /\ report = <<>>
    /\ battery_info = None /\ capacity_info = None /\ usage_info = None
    /\ information = None
    /\ i = 0 /\ dates = <<>> /\ usage_hours = <<>> /\ cumulative_usage = 0
    /\ usage_data = None

CallExtractHtmlTable ==
    /\ pc = "extract_html_table"
    /\ extracted' = ExtractHtmlTable(html_text)
    /\ table' = IF extracted'.ok THEN extracted'.val ELSE table
    /\ pc' = "done"
    /\ UNCHANGED <<string, integer, date_str, date, html_text, report,
                   battery_info, capacity_info, usage_info, information,
                   i, dates, usage_hours, cumulative_usage, usage_data>>

SpecTable == InitTable /\ [][CallExtractHtmlTable]_vars

\* C6: extract_table fails and returns no table whenever the text lacks the
\* table-open marker or lacks the table-close marker.
C6_NoTableFound ==
    pc = "done" /\ (Find(CleanText(html_text), TableOpen) = -1
                    \/ Find(CleanText(html_text), TableClose) = -1) =>
        ~extracted.ok

-----------------------------------------------------------------------------
(* The section location of get_battery_information, get_capacity_data and   *)
(* get_usage_data.                                                          *)

InstalledBatteries ==
    <<"I", "n", "s", "t", "a", "l", "l", "e", "d", " ", "b", "a", "t", "t", "e", "r",
      "i", "e", "s">>
RecentUsage == <<"R", "e", "c", "e", "n", "t", " ", "u", "s", "a", "g", "e">>
UsageHistory == <<"U", "s", "a", "g", "e", " ", "h", "i", "s", "t", "o", "r", "y">>
BatteryCapacityHistory ==
    <<"B", "a", "t", "t", "e", "r", "y", " ", "c", "a", "p", "a", "c", "i", "t", "y",
      " ", "h", "i", "s", "t", "o", "r", "y">>
BatteryLifeEstimates ==
    <<"B", "a", "t", "t", "e", "r", "y", " ", "l", "i", "f", "e", " ", "e", "s", "t",
      "i", "m", "a", "t", "e", "s">>

\* text.split(start)[1].split(end)[0]
Between(text, start, end) ==
    LET after == Split(text, start)
    IN  IF Len(after) < 2 THEN Err("IndexError")
        ELSE Ok(Split(after[2], end)[1])

ReportParts == {InstalledBatteries, RecentUsage, UsageHistory, BatteryCapacityHistory,
                BatteryLifeEstimates, TableOpen \o PlainRow \o TableClose}

Reports == {Concat(ps) : ps \in SeqsUpTo(ReportParts, MaxParts)}

InitSection ==
    /\ pc = "locate"
    /\ report \in Reports
    /\ battery_info = None /\ capacity_info = None /\ usage_info = None
    /\ string = <<>> /\ integer = None
    /\ date_str = <<>> /\ date = None
    /\ html_text = <<>> /\ table = <<>> /\ extracted = None
    /\ information = None
    /\ i = 0 /\ dates = <<>> /\ usage_hours = <<>> /\ cumulative_usage = 0
    /\ usage_data = None

LocateBatteryInfo ==
    /\ pc = "locate" /\ battery_info = None
    /\ battery_info' = Between(report, InstalledBatteries, RecentUsage)
    /\ UNCHANGED <<pc, string, integer, date_str, date, html_text, table, extracted,
                   report, capacity_info, usage_info, information,
                   i, dates, usage_hours, cumulative_usage, usage_data>>

LocateCapacityInfo ==
    /\ pc = "locate" /\ capacity_info = None
    /\ capacity_info' = Between(report, BatteryCapacityHistory, BatteryLifeEstimates)
    /\ UNCHANGED <<pc, string, integer, date_str, date, html_text, table, extracted,
                   report, battery_info, usage_info, information,
                   i, dates, usage_hours, cumulative_usage, usage_data>>

LocateUsageInfo ==
    /\ pc = "locate" /\ usage_info = None
    /\ usage_info' = Between(report, UsageHistory, BatteryCapacityHistory)
    /\ UNCHANGED <<pc, string, integer, date_str, date, html_text, table, extracted,
                   report, battery_info, capacity_info, information,
                   i, dates, usage_hours, cumulative_usage, usage_data>>

NextSection == LocateBatteryInfo \/ LocateCapacityInfo \/ LocateUsageInfo

SpecSection == InitSection /\ [][NextSection]_vars

Absent(anchor) == Find(report, anchor) = -1

\* C7: section location fails whenever an anchor bounding the requested
\* section is absent, the start anchor and the end anchor alike; no section
\* text is produced from a document that is missing an end anchor.
C7_SectionNotFound ==
    /\ battery_info # None /\ (Absent(InstalledBatteries) \/ Absent(RecentUsage))
           => ~battery_info.ok
    /\ usage_info # None /\ (Absent(UsageHistory) \/ Absent(BatteryCapacityHistory))
           => ~usage_info.ok
    /\ capacity_info # None /\ (Absent(BatteryCapacityHistory) \/ Absent(BatteryLifeEstimates))
           => ~capacity_info.ok

-----------------------------------------------------------------------------
(* get_battery_information, from the extracted table on *)

\* [f(x) for x in xs], failing with the first failure
MapStrToInt(cells) ==
    IF \E k \in 1..Len(cells) : ~StrToInt(cells[k]).ok
    THEN Err("ValueError")
    ELSE Ok([k \in 1..Len(cells) |-> StrToInt(cells[k]).val])

\* lines 106-136; the rows are indexed, and the three numeric rows converted,
\* in the order of the source
GetBatteryInformation(t) ==
    IF Len(t) < 6 THEN Err("IndexError")
    ELSE LET design_capacities == MapStrToInt(Rest(t[6]))
         IN  IF ~design_capacities.ok THEN design_capacities
             ELSE IF Len(t) < 7 THEN Err("IndexError")
             ELSE LET actual_capacities == MapStrToInt(Rest(t[7]))
                  IN  IF ~actual_capacities.ok THEN actual_capacities
                      ELSE IF Len(t) < 8 THEN Err("IndexError")
                      ELSE LET cycles == MapStrToInt(Rest(t[8]))
                           IN  IF ~cycles.ok THEN cycles
                               ELSE Ok([battery_count |-> Len(t[1]) - 1,
                                        names |-> Rest(t[2]),
                                        manufacturers |-> Rest(t[3]),
                                        serials |-> Rest(t[4]),
                                        chemistries |-> Rest(t[5]),
                                        design_capacities |-> design_capacities.val,
                                        actual_capacities |-> actual_capacities.val,
                                        cycles |-> cycles.val])

\* the cell texts of the battery-info table: a label, then one cell a battery
BatteryLabel == <<"N", "A", "M", "E">>
BatteryText == <<"S", "M", "P">>
BatteryNumber == <<"4", "5", ",", "0", "3", "0", "m", "W", "h">>
CycleTexts == {<<"7">>, <<"-">>}

\* row r (1..8) with c cells
BatteryRow(r, c, cycle) ==
    [k \in 1..c |-> IF k = 1 THEN BatteryLabel
                    ELSE IF r <= 5 THEN BatteryText
                    ELSE IF r <= 7 THEN BatteryNumber
                    ELSE cycle]

BatteryTables ==
    { [r \in 1..n |-> BatteryRow(r, cells[r], cycle)] :
        n \in {7, 8}, cells \in [1..8 -> 1..MaxCells], cycle \in CycleTexts }

InitBattery ==
    /\ pc = "battery_information"
    /\ table \in BatteryTables
    /\ information = None
    /\ string = <<>> /\ integer = None
    /\ date_str = <<>> /\ date = None
    /\ html_text = <<>> /\ extracted = None
    /\ report = <<>>
    /\ battery_info = None /\ capacity_info = None /\ usage_info = None
    /\ i = 0 /\ dates = <<>> /\ usage_hours = <<>> /\ cumulative_usage = 0
    /\ usage_data = None

CallGetBatteryInformation ==
    /\ pc = "battery_information"
    /\ information' = GetBatteryInformation(table)
    /\ pc' = "done"
    /\ UNCHANGED <<string, integer, date_str, date, html_text, table, extracted,
                   report, battery_info, capacity_info, usage_info,
                   i, dates, usage_hours, cumulative_usage, usage_data>>

SpecBattery == InitBattery /\ [][CallGetBatteryInformation]_vars

\* C5: for every battery-info table with at least 8 rows, battery_count is
\* the header row's cell count minus one, and each of the seven column
\* vectors has length exactly battery_count.
C5_ColumnVectorLengths ==
    pc = "done" /\ Len(table) >= 8 /\ information.ok =>
        LET inf == information.val
        IN  /\ inf.battery_count = Len(table[1]) - 1
            /\ \A v \in {inf.names, inf.manufacturers, inf.serials, inf.chemistries} :
                   Len(v) = inf.battery_count
            /\ \A v \in {inf.design_capacities, inf.actual_capacities, inf.cycles} :
                   Len(v) = inf.battery_count

-----------------------------------------------------------------------------
(* get_usage_data, from the extracted table on *)

Colon == <<":">>

\* the test of line 207, negated: the row is the Windows bug
IsAnomalous_ge(active_seconds) == active_seconds >= 7 * 24 * 60 * 60
IsAnomalous_never(active_seconds) == FALSE
IsAnomalous(active_seconds) == active_seconds > 7 * 24 * 60 * 60

\* cumulative_usage += timedelta(seconds=active_seconds), in seconds
AddUsage_minus(cumulative, active_seconds) == cumulative - active_seconds
AddUsage(cumulative, active_seconds) == cumulative + active_seconds

\* int(cumulative_usage.total_seconds() / 60 / 60): int() truncates toward
\* zero (the float quotient is within 1e-5 of the exact one, and exact when
\* that is whole, for every timedelta)
HoursOf_round(seconds) == (seconds + 1800) \div 3600
HoursOf(seconds) ==
    IF seconds >= 0 THEN seconds \div 3600 ELSE 0 - ((0 - seconds) \div 3600)

\* lines 201-204: the active seconds of an active-time text
ActiveSeconds(text) ==
    LET split_time == Split(text, Colon)
        hours == PyInt(split_time[1])
        minutes == PyInt(split_time[2])
        seconds == PyInt(split_time[3])
    IN  IF ~hours.ok THEN hours
        ELSE IF Len(split_time) < 2 THEN Err("IndexError")
        ELSE IF ~minutes.ok THEN minutes
        ELSE IF Len(split_time) < 3 THEN Err("IndexError")
        ELSE IF ~seconds.ok THEN seconds
        ELSE Ok(seconds.val + (minutes.val + hours.val * 60) * 60)

\* one pass of the loop body over a row: the new accumulator and lists, and
\* the exception that ended the pass, if any
UsageRow(row, cumulative, hours, ds) ==
    LET same == [err |-> "", cumulative |-> cumulative, hours |-> hours, dates |-> ds]
    IN  IF Len(row) < 2 THEN [same EXCEPT !.err = "IndexError"]
        ELSE IF ~(Len(row[2]) > 1) THEN same
        ELSE LET active == ActiveSeconds(row[2])
             IN  IF ~active.ok THEN [same EXCEPT !.err = active.err]
                 ELSE IF IsAnomalous(active.val) THEN same
                 ELSE LET total == AddUsage(cumulative, active.val)
                          appended == [same EXCEPT !.cumulative = total,
                                                   !.hours = Append(hours, HoursOf(total))]
                          d == ExtractDate(row[1])
                      IN  IF ~d.ok THEN [appended EXCEPT !.err = d.err]
                          ELSE [appended EXCEPT !.dates = Append(ds, d.val)]

\* active-time texts: the placeholder of a period without usage, durations up
\* to and over one week, a negative one, and one without its seconds
NoUsage == <<"-">>
T1h == <<"1", ":", "0", "0", ":", "0", "0">>
T2h == <<"2", ":", "0", "0", ":", "0", "0">>
T30m == <<"0", ":", "3", "0", ":", "0", "0">>
TWeek == <<"1", "6", "8", ":", "0", "0", ":", "0", "0">>
TWeek1s == <<"1", "6", "8", ":", "0", "0", ":", "0", "1">>
T200h == <<"2", "0", "0", ":", "0", "0", ":", "0", "0">>
TMinus == <<"-", "1", ":", "3", "0", ":", "0", "0">>
TShort == <<"1", ":", "0", "0">>

DateA == <<"2", "0", "2", "1", "-", "0", "6", "-", "2", "0">>
DateRange == <<"2", "0", "1", "8", "-", "0", "1", "-", "0", "5", "-", "2", "0", "1", "8", "-", "0", "1", "-", "0", "7">>
DateBad == <<"2", "0", "2", "1", "-", "0", "6">>

UsageHeader == <<<<<<"P", "E", "R", "I", "O", "D">>, <<"A", "C", "T", "I", "V", "E">>>>,
                 <<<<"B", "A", "T", "T", "E", "R", "Y">>>>>>

UsageRows ==
    {<<DateA, t>> : t \in {NoUsage, T1h, T2h, T30m, TWeek, TWeek1s, T200h, TMinus}}
    \cup {<<DateRange, T1h>>, <<DateRange, TWeek1s>>, <<DateBad, T30m>>, <<DateA, TShort>>, <<DateA>>}

UsageTables ==
    {<<>>, SubSeq(UsageHeader, 1, 1)}
    \cup {UsageHeader \o rows : rows \in SeqsUpTo(UsageRows, MaxRows)}

InitUsage ==
    /\ pc = "usage_loop"
    /\ table \in UsageTables
    /\ i = 2 /\ dates = <<>> /\ usage_hours = <<>> /\ cumulative_usage = 0
    /\ usage_data = None
    /\ string = <<>> /\ integer = None
    /\ date_str = <<>> /\ date = None
    /\ html_text = <<>> /\ extracted = None
    /\ report = <<>>
    /\ battery_info = None /\ capacity_info = None /\ usage_info = None
    /\ information = None

\* one iteration of "for i in range(2, len(table))"
UsageLoopBody ==
    /\ pc = "usage_loop" /\ i < Len(table)
    /\ LET after == UsageRow(table[i + 1], cumulative_usage, usage_hours, dates)
       IN  /\ cumulative_usage' = after.cumulative
           /\ usage_hours' = after.hours
           /\ dates' = after.dates
           /\ IF after.err = ""
              THEN i' = i + 1 /\ UNCHANGED <<pc, usage_data>>
              ELSE pc' = "error" /\ usage_data' = Err(after.err) /\ i' = i
    /\ UNCHANGED <<string, integer, date_str, date, html_text, table, extracted,
                   report, battery_info, capacity_info, usage_info, information>>

\* the loop is over: return [dates, usage_hours]
UsageReturn ==
    /\ pc = "usage_loop" /\ i >= Len(table)
    /\ usage_data' = Ok(<<dates, usage_hours>>)
    /\ pc' = "done"
    /\ UNCHANGED <<string, integer, date_str, date, html_text, table, extracted,
                   report, battery_info, capacity_info, usage_info, information,
                   i, dates, usage_hours, cumulative_usage>>

NextUsage == UsageLoopBody \/ UsageReturn

SpecUsage == InitUsage /\ [][NextUsage]_vars

\* total seconds of an H:MM:SS text: ((H * 60 + M) * 60 + S)
TotalSeconds(text) ==
    LET f == Split(text, Colon)
    IN  (PyInt(f[1]).val * 60 + PyInt(f[2]).val) * 60 + PyInt(f[3]).val

HasUsage(row) == Len(row[2]) > 1
OverOneWeek(row) == HasUsage(row) /\ TotalSeconds(row[2]) > 604800
NotOverOneWeek(row) == ~OverOneWeek(row)
Emitting(row) == HasUsage(row) /\ TotalSeconds(row[2]) <= 604800

\* the rows the loop has been over: the table's rows after the first two, up
\* to the loop's position
Processed == SubSeq(table, 3, Min(i, Len(table)))

InLoop == pc \in {"usage_loop", "done"}

RECURSIVE Unfiltered(_, _)
\* the accumulator and the series of a table with no test on the duration
Unfiltered(rows, acc) ==
    IF rows = <<>> THEN acc
    ELSE LET row == Head(rows)
             total == acc.cumulative + TotalSeconds(row[2])
         IN  Unfiltered(Tail(rows),
                 IF ~HasUsage(row) THEN acc
                 ELSE [cumulative |-> total,
                       hours |-> Append(acc.hours, HoursOf(total)),
                       dates |-> Append(acc.dates, ExtractDate(row[1]).val)])

\* C1: a row of more than 604800 seconds adds nothing to the accumulator and
\* emits no point, a row of 604800 seconds or fewer is kept, and what is
\* emitted for the other rows is what the table without the anomalous rows
\* gives.
C1_AnomalyFilter ==
    InLoop =>
        /\ [cumulative |-> cumulative_usage, hours |-> usage_hours, dates |-> dates]
             = Unfiltered(SelectSeq(Processed, NotOverOneWeek),
                          [cumulative |-> 0, hours |-> <<>>, dates |-> <<>>])
        /\ Len(usage_hours) = Len(SelectSeq(Processed, Emitting))
        /\ Len(dates) = Len(SelectSeq(Processed, Emitting))

\* a row of 200:00:00 was dropped between two rows that were kept, one of
\* them of exactly one week
C1_Witness ==
    /\ pc = "done"
    /\ \E a, b, c \in 3..Len(table) :
          /\ a < b /\ b < c
          /\ table[a][2] = TWeek /\ table[b][2] = T200h /\ Emitting(table[c])
    /\ Len(dates) = 2

RECURSIVE SumSeconds(_)
SumSeconds(rows) ==
    IF rows = <<>> THEN 0 ELSE TotalSeconds(Head(rows)[2]) + SumSeconds(Tail(rows))

\* the accumulator starts at zero, and a row that is neither skipped nor
\* anomalous adds its total seconds and emits `hours`
Accumulates(hours) ==
    pc = "usage_loop" /\ i' = i + 1 /\ Emitting(table[i + 1]) =>
        /\ cumulative_usage' = cumulative_usage + TotalSeconds(table[i + 1][2])
        /\ usage_hours' = Append(usage_hours, hours)

ExampleTable == UsageHeader \o <<<<DateA, T1h>>, <<DateA, T2h>>, <<DateA, T30m>>>>

\* C2 as stated: each emitted value is floor(accumulator / 3600).
C2_FloorAtEachEmission ==
    /\ [](pc = "usage_loop" /\ i = 2 => cumulative_usage = 0)
    /\ [][Accumulates(cumulative_usage' \div 3600)]_vars

\* C2 amended: from an accumulator of zero, each non-skipped, non-anomalous
\* row adds its total seconds, and the value emitted is accumulator / 3600
\* truncated toward zero at that emission, which is floor(accumulator / 3600)
\* whenever the accumulator is not negative; 1:00:00, 2:00:00, 0:30:00 emit
\* [1, 3, 3].
C2_TruncationAtEachEmission ==
    /\ [](pc = "usage_loop" /\ i = 2 => cumulative_usage = 0)
    /\ [](pc = "done" /\ table = ExampleTable => usage_hours = <<1, 3, 3>>)
    /\ [][Accumulates(IF cumulative_usage' >= 0
                      THEN cumulative_usage' \div 3600
                      ELSE 0 - ((0 - cumulative_usage') \div 3600))]_vars

C2_Witness ==
    pc = "done" /\ table = ExampleTable /\ usage_hours = <<1, 3, 3>>
                /\ cumulative_usage = 12600

\* C9: on a successful return the dates and the values have the same length,
\* the number of rows after the first two whose active-time text is longer
\* than 1 and whose total seconds are <= 604800; the k-th date and the k-th
\* value come from the k-th such row; shorter texts contribute nothing.
C9_SeriesShape ==
    pc = "done" =>
        LET rows == SelectSeq(SubSeq(table, 3, Len(table)), Emitting)
        IN  /\ usage_data = Ok(<<dates, usage_hours>>)
            /\ Len(dates) = Len(usage_hours)
            /\ Len(dates) = Len(rows)
            /\ \A k \in 1..Len(rows) :
                  /\ dates[k] = ExtractDate(rows[k][1]).val
                  /\ usage_hours[k] = HoursOf(SumSeconds(SubSeq(rows, 1, k)))

\* a placeholder row and an anomalous row lie before an emitting row
C9_Witness ==
    /\ pc = "done" /\ Len(table) = 5
    /\ table[3][2] = NoUsage /\ table[4][2] = TWeek1s /\ table[5] = <<DateRange, T1h>>
    /\ dates = <<[year |-> 2018, month |-> 1, day |-> 6]>>

NonNegativeFields(row) ==
    HasUsage(row) =>
        LET f == Split(row[2], Colon)
        IN  \A k \in 1..3 : PyInt(f[k]).val >= 0

\* C10: when every processed row has non-negative hours, minutes and seconds,
\* the emitted values are non-decreasing and each exceeds the previous one by
\* at most 168.
C10_Monotone ==
    InLoop /\ (\A k \in 1..Len(Processed) : NonNegativeFields(Processed[k])) =>
        \A k \in 1..(Len(usage_hours) - 1) :
            /\ usage_hours[k] <= usage_hours[k + 1]
            /\ usage_hours[k + 1] - usage_hours[k] <= 168

\* a step of exactly 168 hours
C10_Witness ==
    /\ pc = "done" /\ Len(usage_hours) = 3
    /\ \A k \in 1..Len(Processed) : NonNegativeFields(Processed[k])
    /\ usage_hours[2] - usage_hours[1] = 168

====
